---- MODULE Spec2Model ----
(***************************************************************************)
(* Model of python/sglang/srt/managers/policy_scheduler.py:                *)
(* PolicyScheduler (calc_priority) and PrefillAdder (add_one_req,          *)
(* add_inflight_req, no_remaining_tokens), together with the prefix cache  *)
(* they call (match_prefix, match_prefix_lock, inc_lock_ref, dec_lock_ref) *)
(* and a background eviction process acting on the cache.                  *)
(***************************************************************************)
EXTENDS Integers, Sequences, FiniteSets, TLC

(***************************************************************************)
(* Bounds and program constants                                            *)
(***************************************************************************)
\* number of requests in the waiting queue
NumReqs == 3

\* constructor arguments of PrefillAdder tried by Init
TotalBudgets == {3, 7, 4110}
InputBudgets == {3, 12}
ChunkBudget == 2
MixedTokens == {0, 2, 3}

\* input tokens the inflight request still has to prefill when it is re-added
InflightExtends == {1, 3}

\* policy_scheduler.py:32, default of SGLANG_CLIP_MAX_NEW_TOKENS
CLIP_MAX_NEW_TOKENS == 4096

\* Optional[int] values are wrapped: None is the empty tuple, v is <<v>>
None == <<>>
Some(v) == <<v>>

\* "no request" (Python None where a Req is expected) and "no node"
NoReq == -1
NoNode == -1

\* rid of the request carried over from the previous tick as inflight
InflightRid == 0

Rids == 1..NumReqs

Min(a, b) == IF a <= b THEN a ELSE b

Range(s) == {s[i] : i \in 1..Len(s)}

(***************************************************************************)
(* The prefix cache tree (radix_cache.TreeNode, BasePrefixCache)           *)
(***************************************************************************)
Root == 0
Nodes == 0..3

\* TreeNode.parent: 1 and 3 are children of the root, 2 is a child of 1
Parent(n) == CASE n = 1 -> 0
               [] n = 2 -> 1
               [] n = 3 -> 0
               [] OTHER -> NoNode

\* number of cached tokens stored at a node (len(node.value))
NodeLen(n) == IF n = Root THEN 0 ELSE 1

RECURSIVE PathTo(_)
\* the node and all its ancestors up to the root
PathTo(n) == IF n = Root THEN {Root} ELSE {n} \cup PathTo(Parent(n))

\* number of cached tokens on the path from the root to n
PrefixLen(n) == Cardinality(PathTo(n)) - 1

Children(n) == {c \in Nodes : c # Root /\ Parent(c) = n}

RECURSIVE SumLen(_)
SumLen(S) == IF S = {} THEN 0
             ELSE LET n == CHOOSE x \in S : TRUE
                  IN NodeLen(n) + SumLen(S \ {n})

VARIABLES
    resident,          \* nodes currently in the tree
    lock_ref,          \* TreeNode.lock_ref of every node
    delta_sign,        \* sign of the budget delta the cache returns on locking
    tree_disable,      \* tree_cache.disable
    policy_arg,        \* the policy name given to PolicyScheduler.__init__
    policy,            \* PolicyScheduler.policy
    waiting_queue,     \* the waiting queue, a sequence of rids
    reqs,              \* the Req objects, by rid
    rem_total_tokens,
    rem_input_tokens,
    rem_chunk_tokens,
    can_run_list,
    new_inflight_req,
    log_hit_tokens,
    log_input_tokens,
    pc,                \* position of the scheduler loop
    next_idx,          \* position of the admission scan in waiting_queue
    cur,               \* the request of the add_one_req call in progress
    inflight_pending,  \* the previous tick's inflight request has not been re-added yet
    call,              \* the last call: its arguments, the state on entry, its result
    n_acquire,         \* temporary locks taken by match_prefix_lock
    n_release,         \* dec_lock_ref calls made by _lock_req's finally
    n_match,           \* match_prefix calls made by calc_priority
    ctor_args          \* the arguments PrefillAdder.__init__ was called with

vars == <<resident, lock_ref, delta_sign, tree_disable, policy_arg, policy, waiting_queue, reqs,
          rem_total_tokens, rem_input_tokens, rem_chunk_tokens, can_run_list,
          new_inflight_req, log_hit_tokens, log_input_tokens, pc, next_idx, cur,
          inflight_pending, call, n_acquire, n_release, n_match, ctor_args>>

cacheVars == <<resident, lock_ref, delta_sign, tree_disable>>
adderVars == <<rem_total_tokens, rem_input_tokens, rem_chunk_tokens, can_run_list,
               new_inflight_req, log_hit_tokens, log_input_tokens>>

\* match_prefix: the deepest resident node on the path of the key
MatchNode(key_node) ==
    LET cand == PathTo(key_node) \cap resident
    IN CHOOSE n \in cand : \A m \in cand : PrefixLen(m) <= PrefixLen(n)

\* the kv indices of a matched prefix of the given length
Indices(len) == [i \in 1..len |-> i]

\* inc_lock_ref: the token delta returned, and the lock counts afterwards
IncDelta(n, lr) == delta_sign * SumLen({m \in PathTo(n) : lr[m] = 0})
IncLock(n, lr) == [m \in Nodes |-> IF m \in PathTo(n) THEN lr[m] + 1 ELSE lr[m]]

\* dec_lock_ref: the token delta returned, and the lock counts afterwards
DecDelta(n, lr) == (0 - delta_sign) * SumLen({m \in PathTo(n) : lr[m] = 1})
DecLock(n, lr) == [m \in Nodes |-> IF m \in PathTo(n) THEN lr[m] - 1 ELSE lr[m]]

\* the cache manager's eviction: an unlocked leaf leaves the tree
Evict(n) ==
    /\ n # Root
    /\ n \in resident
    /\ lock_ref[n] = 0
    /\ Children(n) \cap resident = {}
    /\ resident' = resident \ {n}
    /\ UNCHANGED <<lock_ref, delta_sign, tree_disable, policy_arg, policy, waiting_queue, reqs,
                   rem_total_tokens, rem_input_tokens, rem_chunk_tokens, can_run_list,
                   new_inflight_req, log_hit_tokens, log_input_tokens, pc, next_idx,
                   cur, inflight_pending, call, n_acquire, n_release, n_match, ctor_args>>

(***************************************************************************)
(* Requests (schedule_batch.Req)                                           *)
(***************************************************************************)
\* the requests of the waiting queue: length of origin_input_ids,
\* sampling_params.max_new_tokens, return_logprob, whether
\* normalized_prompt_logprob is still None, and the deepest node of the
\* full tree that the request's tokens match
ProfileTable == <<
    [origin_len |-> 4, max_new_tokens |-> 2,    return_logprob |-> FALSE, logprob_none |-> TRUE,  key_node |-> 3],
    [origin_len |-> 5, max_new_tokens |-> 5000, return_logprob |-> TRUE,  logprob_none |-> TRUE,  key_node |-> 0],
    [origin_len |-> 3, max_new_tokens |-> 2,    return_logprob |-> FALSE, logprob_none |-> TRUE,  key_node |-> 2],
    [origin_len |-> 4, max_new_tokens |-> 1,    return_logprob |-> TRUE,  logprob_none |-> FALSE, key_node |-> 2] >>

Profile(r) == ProfileTable[((r - 1) % Len(ProfileTable)) + 1]

\* a request as it enters the waiting queue: nothing matched yet
NewReq(r) ==
    LET p == Profile(r)
    IN [origin_input_ids |-> [i \in 1..p.origin_len |-> i],
        output_ids |-> <<>>,
        max_new_tokens |-> p.max_new_tokens,
        return_logprob |-> p.return_logprob,
        logprob_none |-> p.logprob_none,
        key_node |-> p.key_node,
        fill_ids |-> <<>>,
        prefix_indices |-> <<>>,
        last_node |-> NoNode,
        extend_input_len |-> 0]

\* Python's s[:k]: a negative k counts from the end
PySlice(s, k) ==
    IF k >= 0 THEN SubSeq(s, 1, Min(k, Len(s)))
    ELSE SubSeq(s, 1, IF Len(s) + k > 0 THEN Len(s) + k ELSE 0)

\* the request carried over from the previous tick: its first chunk is cached
\* at InflightNode and the chunked admission of that tick holds its lock
InflightNode == 3

InflightReq ==
    [origin_input_ids |-> [i \in 1..4 |-> i],
     output_ids |-> <<>>,
     max_new_tokens |-> 2,
     return_logprob |-> FALSE,
     logprob_none |-> TRUE,
     key_node |-> InflightNode,
     fill_ids |-> [i \in 1..4 |-> i],
     prefix_indices |-> Indices(PrefixLen(InflightNode)),
     last_node |-> InflightNode,
     extend_input_len |-> 3]

(***************************************************************************)
(* PrefillAdder                                                            *)
(***************************************************************************)
NoCall ==
    [op |-> "none", rid |-> NoReq, ret |-> "none", branch |-> "none",
     total_tokens |-> 0, input_tokens |-> 0, chk_total |-> 0, node |-> NoNode,
     entry_extend |-> 0,
     pre_total |-> 0, pre_input |-> 0, pre_chunk |-> None, pre_can_run |-> <<>>,
     pre_inflight |-> NoReq, pre_hit |-> 0, pre_log_input |-> 0,
     pre_lock |-> [n \in Nodes |-> 0], pre_queue |-> <<>>, pre_reqs |-> <<>>,
     pre_resident |-> {}, ord_resident |-> {}, perm_delta |-> 0]

\* PrefillAdder.__init__: the three counters after construction
InitTotal(total, mixed) == total - mixed
InitInput(input, mixed) == input - mixed
InitChunk(chunk, mixed) == IF chunk # None THEN Some(chunk[1] - mixed) ELSE None

no_remaining_tokens_Strict ==
    \/ rem_total_tokens <= 0
    \/ rem_input_tokens < 0
    \/ (IF rem_chunk_tokens # None THEN rem_chunk_tokens[1] <= 0 ELSE FALSE)

\* PrefillAdder.no_remaining_tokens
no_remaining_tokens ==
    \/ rem_total_tokens <= 0
    \/ rem_input_tokens <= 0
    \/ (IF rem_chunk_tokens # None THEN rem_chunk_tokens[1] <= 0 ELSE FALSE)

PrefillTotal_NoNew(total, extend_input_len, max_new_tokens) == total - extend_input_len

\* PrefillAdder._prefill_one_req: the counters after the debit
PrefillTotal(total, extend_input_len, max_new_tokens) ==
    total - (extend_input_len + max_new_tokens)
PrefillInput(input, extend_input_len) == input - extend_input_len
PrefillChunk(chunk, extend_input_len) ==
    IF chunk # None THEN Some(chunk[1] - extend_input_len) ELSE chunk

\* min(req.sampling_params.max_new_tokens, CLIP_MAX_NEW_TOKENS)
ClippedNewTokens(req) == Min(req.max_new_tokens, CLIP_MAX_NEW_TOKENS)

TotalRejects_Strict(total_tokens, rem_total) == total_tokens > rem_total

\* add_one_req, line 213: the total-budget rejection
TotalRejects(total_tokens, rem_total) == total_tokens >= rem_total

InputRejects_Always(input_tokens, rem_input, can_run) == input_tokens > rem_input

\* add_one_req, line 216: the input-budget rejection
InputRejects(input_tokens, rem_input, can_run) ==
    input_tokens > rem_input /\ Len(can_run) # 0

NonChunked_NoLogprob(chunk, input_tokens, req) ==
    \/ chunk = None
    \/ (chunk # None /\ input_tokens <= chunk[1])

\* add_one_req, lines 219-223: the condition of the non-chunked branch
NonChunked(chunk, input_tokens, req) ==
    \/ chunk = None
    \/ (chunk # None /\ input_tokens <= chunk[1])
    \/ (req.return_logprob /\ req.logprob_none)

TruncLen_Over(chunk) == chunk[1] + 1

\* add_one_req, line 234: trunc_len = self.rem_chunk_tokens
TruncLen(chunk) == chunk[1]

ChunkRejects_Negative(trunc_len) == trunc_len < 0

\* add_one_req, line 235: the chunk-budget rejection
ChunkRejects(trunc_len) == trunc_len = 0

\* add_inflight_req, line 161: is the request still cut short by the chunk budget
Truncated(extend_input_len, chunk) == extend_input_len > chunk[1]

\* add_inflight_req, line 162: the clipped extend_input_len
ClipExtend(extend_input_len, chunk) == Min(extend_input_len, chunk[1])

InflightNewTokens_Always(truncated, req) == Min(req.max_new_tokens, CLIP_MAX_NEW_TOKENS)

\* add_inflight_req, lines 169-173: the generation tokens reserved
InflightNewTokens(truncated, req) ==
    IF ~truncated THEN Min(req.max_new_tokens, CLIP_MAX_NEW_TOKENS) ELSE 0

PermanentLock_Skipped(n, lr) == lr

\* add_one_req, lines 226 and 242: the permanent lock of an admitted request
PermanentLock(n, lr) == IncLock(n, lr)

ReleaseLock_Leaked(n, lr) == lr

\* _lock_req, lines 200-202: the release of the temporary lock
ReleaseLock(n, lr) == DecLock(n, lr)

ReleaseDelta_Dropped(n, lr) == 0

\* _lock_req, lines 201-202: the delta of the release, added to rem_total_tokens
ReleaseDelta(n, lr) == DecDelta(n, lr)

LockedMatch_Stale(req) ==
    IF req.last_node # NoNode THEN req.last_node ELSE MatchNode(req.key_node)

\* _lock_req, lines 193-195: the node match_prefix_lock returns for the request
LockedMatch(req) == MatchNode(req.key_node)

\* _lock_req up to its yield: match the prefix again and lock the last node
AddOneReqLock ==
    /\ pc = "idle"
    /\ next_idx <= Len(waiting_queue)
    /\ LET r == waiting_queue[next_idx]
           req == reqs[r]
           fill == req.origin_input_ids \o req.output_ids
           node == LockedMatch(req)
           prefix == Indices(PrefixLen(node))
           delta == IncDelta(node, lock_ref)
       IN /\ reqs' = [reqs EXCEPT ![r] = [req EXCEPT !.fill_ids = fill,
                                                       !.prefix_indices = prefix,
                                                       !.last_node = node,
                                                       !.extend_input_len = Len(fill) - Len(prefix)]]
          /\ lock_ref' = IncLock(node, lock_ref)
          /\ rem_total_tokens' = rem_total_tokens + delta
          /\ cur' = r
          /\ call' = [NoCall EXCEPT !.op = "add_one_req", !.rid = r, !.ret = "pending",
                                    !.node = node,
                                    !.pre_total = rem_total_tokens,
                                    !.pre_input = rem_input_tokens,
                                    !.pre_chunk = rem_chunk_tokens,
                                    !.pre_can_run = can_run_list,
                                    !.pre_inflight = new_inflight_req,
                                    !.pre_hit = log_hit_tokens,
                                    !.pre_log_input = log_input_tokens,
                                    !.pre_lock = lock_ref,
                                    !.pre_queue = waiting_queue,
                                    !.pre_reqs = reqs,
                                    !.pre_resident = resident]
    /\ n_acquire' = n_acquire + 1
    /\ pc' = "locked"
    /\ UNCHANGED <<resident, delta_sign, tree_disable, policy_arg, policy, waiting_queue,
                   rem_input_tokens, rem_chunk_tokens, can_run_list, new_inflight_req,
                   log_hit_tokens, log_input_tokens, next_idx, inflight_pending,
                   n_release, n_match, ctor_args>>

\* add_one_req, lines 207-245: the body of the with block
AddOneReqBody ==
    /\ pc = "locked"
    /\ LET r == cur
           req == reqs[r]
           max_new == ClippedNewTokens(req)
           total_tokens == req.extend_input_len + max_new
           input_tokens == req.extend_input_len
           prefix_len == Len(req.prefix_indices)
           seen == [call EXCEPT !.total_tokens = total_tokens,
                                !.input_tokens = input_tokens,
                                !.chk_total = rem_total_tokens]
       IN IF TotalRejects(total_tokens, rem_total_tokens)
          THEN /\ call' = [seen EXCEPT !.ret = "False", !.branch = "total"]
               /\ UNCHANGED <<reqs, lock_ref, adderVars>>
          ELSE IF InputRejects(input_tokens, rem_input_tokens, can_run_list)
          THEN /\ call' = [seen EXCEPT !.ret = "False", !.branch = "input"]
               /\ UNCHANGED <<reqs, lock_ref, adderVars>>
          ELSE IF NonChunked(rem_chunk_tokens, input_tokens, req)
          THEN /\ can_run_list' = Append(can_run_list, r)
               /\ lock_ref' = PermanentLock(req.last_node, lock_ref)
               /\ rem_total_tokens' = PrefillTotal(rem_total_tokens, input_tokens, max_new)
               /\ rem_input_tokens' = PrefillInput(rem_input_tokens, input_tokens)
               /\ rem_chunk_tokens' = PrefillChunk(rem_chunk_tokens, input_tokens)
               /\ log_hit_tokens' = log_hit_tokens + prefix_len
               /\ log_input_tokens' = log_input_tokens + input_tokens
               /\ call' = [seen EXCEPT !.ret = "True", !.branch = "nonchunked",
                                        !.perm_delta = IncDelta(req.last_node, lock_ref)]
               /\ UNCHANGED <<reqs, new_inflight_req>>
          ELSE LET trunc_len == TruncLen(rem_chunk_tokens)
               IN IF ChunkRejects(trunc_len)
                  THEN /\ call' = [seen EXCEPT !.ret = "False", !.branch = "chunk0"]
                       /\ UNCHANGED <<reqs, lock_ref, adderVars>>
                  ELSE /\ reqs' = [reqs EXCEPT ![r] =
                                     [req EXCEPT !.extend_input_len = trunc_len,
                                                 !.fill_ids = PySlice(req.fill_ids,
                                                                Len(req.prefix_indices) + trunc_len)]]
                       /\ can_run_list' = Append(can_run_list, r)
                       /\ new_inflight_req' = r
                       /\ lock_ref' = PermanentLock(req.last_node, lock_ref)
                       /\ rem_total_tokens' = PrefillTotal(rem_total_tokens, trunc_len, 0)
                       /\ rem_input_tokens' = PrefillInput(rem_input_tokens, trunc_len)
                       /\ rem_chunk_tokens' = PrefillChunk(rem_chunk_tokens, trunc_len)
                       /\ log_hit_tokens' = log_hit_tokens + prefix_len
                       /\ log_input_tokens' = log_input_tokens + trunc_len
                       /\ call' = [seen EXCEPT !.ret = "True", !.branch = "chunked",
                                                !.perm_delta = IncDelta(req.last_node, lock_ref)]
    /\ pc' = "exit"
    /\ UNCHANGED <<resident, delta_sign, tree_disable, policy_arg, policy, waiting_queue, next_idx,
                   cur, inflight_pending, n_acquire, n_release, n_match, ctor_args>>

\* _lock_req's finally, reached by every return of add_one_req
AddOneReqUnlock ==
    /\ pc = "exit"
    /\ LET node == reqs[cur].last_node
           delta == ReleaseDelta(node, lock_ref)
       IN /\ lock_ref' = ReleaseLock(node, lock_ref)
          /\ rem_total_tokens' = rem_total_tokens + delta
    /\ n_release' = n_release + 1
    /\ pc' = "idle"
    /\ next_idx' = next_idx + 1
    /\ cur' = NoReq
    /\ call' = [call EXCEPT !.op = "add_one_req_done"]
    /\ UNCHANGED <<resident, delta_sign, tree_disable, policy_arg, policy, waiting_queue, reqs,
                   rem_input_tokens, rem_chunk_tokens, can_run_list, new_inflight_req,
                   log_hit_tokens, log_input_tokens, inflight_pending, n_acquire, n_match,
                   ctor_args>>

\* PrefillAdder.add_inflight_req, for the request the previous tick left
\* partially prefilled; e is the extend_input_len the caller hands it in with
AddInflightReq(e) ==
    /\ pc = "idle"
    /\ inflight_pending
    /\ rem_chunk_tokens # None
    /\ LET r == InflightRid
           req0 == [reqs[r] EXCEPT !.extend_input_len = e,
                                   !.fill_ids = [i \in 1..(Len(reqs[r].prefix_indices) + e) |-> i]]
           truncated == Truncated(req0.extend_input_len, rem_chunk_tokens)
           extend == ClipExtend(req0.extend_input_len, rem_chunk_tokens)
           fill == PySlice(req0.fill_ids, Len(req0.prefix_indices) + extend)
           max_new == InflightNewTokens(truncated, req0)
       IN /\ reqs' = [reqs EXCEPT ![r] = [req0 EXCEPT !.extend_input_len = extend,
                                                       !.fill_ids = fill]]
          /\ can_run_list' = Append(can_run_list, r)
          /\ rem_total_tokens' = PrefillTotal(rem_total_tokens, extend, max_new)
          /\ rem_input_tokens' = PrefillInput(rem_input_tokens, extend)
          /\ rem_chunk_tokens' = PrefillChunk(rem_chunk_tokens, extend)
          /\ log_hit_tokens' = log_hit_tokens + Len(req0.prefix_indices)
          /\ log_input_tokens' = log_input_tokens + extend
          /\ call' = [NoCall EXCEPT !.op = "add_inflight_req", !.rid = r,
                                    !.ret = IF truncated THEN "req" ELSE "None",
                                    !.branch = IF truncated THEN "truncated" ELSE "completed",
                                    !.entry_extend = e,
                                    !.node = req0.last_node,
                                    !.pre_total = rem_total_tokens,
                                    !.pre_input = rem_input_tokens,
                                    !.pre_chunk = rem_chunk_tokens,
                                    !.pre_can_run = can_run_list,
                                    !.pre_inflight = new_inflight_req,
                                    !.pre_hit = log_hit_tokens,
                                    !.pre_log_input = log_input_tokens,
                                    !.pre_lock = lock_ref,
                                    !.pre_queue = waiting_queue,
                                    !.pre_reqs = reqs]
    /\ inflight_pending' = FALSE
    /\ UNCHANGED <<cacheVars, policy_arg, policy, waiting_queue, new_inflight_req, pc, next_idx, cur,
                   n_acquire, n_release, n_match, ctor_args>>

(***************************************************************************)
(* PolicyScheduler                                                         *)
(***************************************************************************)
PolicyNames == {"lpm", "fcfs", "lof", "random", "dfs-weight", "bogus"}

EffectivePolicy_Kept(name, disable) == name

\* PolicyScheduler.__init__: the policy the scheduler keeps
EffectivePolicy(name, disable) ==
    IF disable /\ name \in {"lpm", "dfs-weight"} THEN "fcfs" ELSE name

RECURSIVE StableSortDesc_Ascending(_, _)
StableSortDesc_Ascending(q, k) ==
    IF q = <<>> THEN <<>>
    ELSE LET h == Head(q)
             rest == StableSortDesc_Ascending(Tail(q), k)
             cnt == Cardinality({i \in 1..Len(rest) : k[rest[i]] < k[h]})
         IN SubSeq(rest, 1, cnt) \o <<h>> \o SubSeq(rest, cnt + 1, Len(rest))

RECURSIVE StableSortDesc(_, _)
\* list.sort(key=lambda x: -k[x]): larger keys first, equal keys keep their order
StableSortDesc(q, k) ==
    IF q = <<>> THEN <<>>
    ELSE LET h == Head(q)
             rest == StableSortDesc(Tail(q), k)
             cnt == Cardinality({i \in 1..Len(rest) : k[rest[i]] > k[h]})
         IN SubSeq(rest, 1, cnt) \o <<h>> \o SubSeq(rest, cnt + 1, Len(rest))

\* random.shuffle: every arrangement of the queue is a possible outcome
Shuffles(q) == {p \in [1..Len(q) -> Range(q)] : Range(p) = Range(q)}

\* cur_node.children.values(), as a sequence
RECURSIVE SetToSeq(_)
SetToSeq(S) == IF S = {} THEN <<>>
               ELSE LET m == CHOOSE x \in S : \A y \in S : x <= y
                    IN <<m>> \o SetToSeq(S \ {m})

ChildSeq(n, res) == SetToSeq(Children(n) \cap res)

\* last_node_to_reqs[n], lines 65-67
ReqsAt(n, q, rs) == SelectSeq(q, LAMBDA r : rs[r].last_node = n)

calc_weight_Shallow(cur_node, q, rs, res) == Len(ReqsAt(cur_node, q, rs))

RECURSIVE calc_weight(_, _, _, _)
\* node_to_weight[cur_node] after calc_weight(cur_node), lines 69-72 and 84-87
calc_weight(cur_node, q, rs, res) ==
    LET RECURSIVE SumW(_)
        SumW(cs) == IF cs = <<>> THEN 0
                    ELSE calc_weight(Head(cs), q, rs, res) + SumW(Tail(cs))
    IN Len(ReqsAt(cur_node, q, rs)) + SumW(ChildSeq(cur_node, res))

RECURSIVE get_dfs_priority_Unsorted(_, _, _, _)
get_dfs_priority_Unsorted(cur_node, q, rs, res) ==
    LET RECURSIVE Walk(_)
        Walk(cs) == IF cs = <<>> THEN <<>>
                    ELSE get_dfs_priority_Unsorted(Head(cs), q, rs, res) \o Walk(Tail(cs))
    IN Walk(ChildSeq(cur_node, res)) \o ReqsAt(cur_node, q, rs)

RECURSIVE get_dfs_priority(_, _, _, _)
\* what get_dfs_priority(cur_node) appends to q, lines 89-100
get_dfs_priority(cur_node, q, rs, res) ==
    LET w == [c \in Nodes |-> IF c \in res THEN calc_weight(c, q, rs, res) ELSE 0]
        childs == StableSortDesc(ChildSeq(cur_node, res), w)
        RECURSIVE Walk(_)
        Walk(cs) == IF cs = <<>> THEN <<>>
                    ELSE get_dfs_priority(Head(cs), q, rs, res) \o Walk(Tail(cs))
    IN Walk(childs) \o ReqsAt(cur_node, q, rs)

\* lines 46-51: match_prefix for every request of the queue
Matched(q, rs) ==
    [r \in DOMAIN rs |->
        IF r \in Range(q)
        THEN [rs[r] EXCEPT !.prefix_indices = Indices(PrefixLen(MatchNode(rs[r].key_node))),
                           !.last_node = MatchNode(rs[r].key_node)]
        ELSE rs[r]]

LpmKey_Ascending(rs) == [r \in DOMAIN rs |-> 0 - Len(rs[r].prefix_indices)]

\* calc_priority, line 55: the lpm sort key, the length of the matched prefix
\* (StableSortDesc sorts by descending key, as sort does on the negated key)
LpmKey(rs) == [r \in DOMAIN rs |-> Len(rs[r].prefix_indices)]

UsesPrefix_Always(p) == TRUE

\* calc_priority, line 46: the policies that match prefixes first
UsesPrefix(p) == p \in {"lpm", "dfs-weight"}

\* PolicyScheduler.calc_priority, lines 46-51: the prefix matching
CalcPriorityMatch ==
    /\ pc = "prio"
    /\ reqs' = IF UsesPrefix(policy) THEN Matched(waiting_queue, reqs) ELSE reqs
    /\ n_match' = n_match + (IF UsesPrefix(policy) THEN Len(waiting_queue) ELSE 0)
    /\ pc' = "prio_order"
    /\ call' = [NoCall EXCEPT !.op = "calc_priority",
                              !.ret = "pending",
                              !.pre_lock = lock_ref,
                              !.pre_queue = waiting_queue,
                              !.pre_reqs = reqs,
                              !.pre_resident = resident]
    /\ UNCHANGED <<cacheVars, policy_arg, policy, waiting_queue, adderVars, next_idx, cur,
                   inflight_pending, n_acquire, n_release, ctor_args>>

\* PolicyScheduler.calc_priority, lines 53-82: the ordering
CalcPriorityOrder ==
    /\ pc = "prio_order"
    /\ CASE policy = "lpm" ->
              /\ waiting_queue' = StableSortDesc(waiting_queue, LpmKey(reqs))
              /\ pc' = "idle"
         [] policy = "fcfs" ->
              /\ waiting_queue' = waiting_queue
              /\ pc' = "idle"
         [] policy = "lof" ->
              /\ waiting_queue' = StableSortDesc(waiting_queue,
                                      [r \in DOMAIN reqs |-> reqs[r].max_new_tokens])
              /\ pc' = "idle"
         [] policy = "random" ->
              /\ waiting_queue' \in Shuffles(waiting_queue)
              /\ pc' = "idle"
         [] policy = "dfs-weight" ->
              /\ waiting_queue' = get_dfs_priority(Root, waiting_queue, reqs, resident)
              /\ pc' = "idle"
         [] OTHER ->
              /\ waiting_queue' = waiting_queue
              /\ pc' = "error"
    /\ call' = [call EXCEPT !.ret = IF policy \in {"lpm", "fcfs", "lof", "random", "dfs-weight"}
                                    THEN "None" ELSE "ValueError",
                            !.ord_resident = resident]
    /\ UNCHANGED <<cacheVars, policy_arg, policy, reqs, adderVars, next_idx, cur,
                   inflight_pending, n_acquire, n_release, n_match, ctor_args>>

(***************************************************************************)
(* The system                                                              *)
(***************************************************************************)
Init ==
    /\ \E total \in TotalBudgets, input \in InputBudgets,
          chunk \in {None, Some(ChunkBudget)}, mixed \in MixedTokens :
          /\ rem_total_tokens = InitTotal(total, mixed)
          /\ rem_input_tokens = InitInput(input, mixed)
          /\ rem_chunk_tokens = InitChunk(chunk, mixed)
          /\ ctor_args = [rem_total_tokens |-> total, rem_input_tokens |-> input,
                          rem_chunk_tokens |-> chunk, mixed_with_decode_tokens |-> mixed]
    /\ can_run_list = <<>>
    /\ new_inflight_req = NoReq
    /\ log_hit_tokens = 0
    /\ log_input_tokens = 0
    /\ tree_disable \in BOOLEAN
    /\ policy_arg \in PolicyNames
    /\ policy = EffectivePolicy(policy_arg, tree_disable)
    /\ resident = IF tree_disable THEN {Root} ELSE Nodes
    /\ delta_sign \in {-1, 1}
    /\ inflight_pending \in (IF rem_chunk_tokens # None /\ ~tree_disable THEN BOOLEAN ELSE {FALSE})
    /\ lock_ref = IF inflight_pending THEN IncLock(InflightNode, [n \in Nodes |-> 0])
                  ELSE [n \in Nodes |-> 0]
    /\ waiting_queue = [i \in 1..NumReqs |-> i]
    /\ reqs = [r \in 0..NumReqs |-> IF r = InflightRid THEN InflightReq ELSE NewReq(r)]
    /\ pc = "prio"
    /\ next_idx = 1
    /\ cur = NoReq
    /\ call = NoCall
    /\ n_acquire = 0
    /\ n_release = 0
    /\ n_match = 0

Next ==
    \/ CalcPriorityMatch
    \/ CalcPriorityOrder
    \/ AddOneReqLock
    \/ AddOneReqBody
    \/ AddOneReqUnlock
    \/ \E e \in InflightExtends : AddInflightReq(e)
    \/ \E n \in Nodes : Evict(n)

Spec == Init /\ [][Next]_vars

\* the orderer on its own, with one admitter: for the policies that match
\* prefixes the requests match anywhere in the tree, for the others the queue
\* starts in any arrangement
InitPolicy ==
    /\ ctor_args = [rem_total_tokens |-> 4110, rem_input_tokens |-> 12,
                    rem_chunk_tokens |-> Some(ChunkBudget), mixed_with_decode_tokens |-> 0]
    /\ rem_total_tokens = InitTotal(4110, 0)
    /\ rem_input_tokens = InitInput(12, 0)
    /\ rem_chunk_tokens = InitChunk(Some(ChunkBudget), 0)
    /\ can_run_list = <<>>
    /\ new_inflight_req = NoReq
    /\ log_hit_tokens = 0
    /\ log_input_tokens = 0
    /\ tree_disable \in BOOLEAN
    /\ policy_arg \in PolicyNames
    /\ policy = EffectivePolicy(policy_arg, tree_disable)
    /\ resident = IF tree_disable THEN {Root} ELSE Nodes
    /\ delta_sign = 1
    /\ inflight_pending = FALSE
    /\ lock_ref = [n \in Nodes |-> 0]
    /\ waiting_queue \in (IF UsesPrefix(policy) THEN {[i \in 1..NumReqs |-> i]}
                          ELSE Shuffles([i \in 1..NumReqs |-> i]))
    /\ \E k \in (IF UsesPrefix(policy) THEN [Rids -> Nodes]
                 ELSE {[r \in Rids |-> Profile(r).key_node]}) :
          reqs = [r \in 0..NumReqs |-> IF r = InflightRid THEN InflightReq
                                       ELSE [NewReq(r) EXCEPT !.key_node = k[r]]]
    /\ pc = "prio"
    /\ next_idx = 1
    /\ cur = NoReq
    /\ call = NoCall
    /\ n_acquire = 0
    /\ n_release = 0
    /\ n_match = 0

NextPolicy ==
    \/ CalcPriorityMatch
    \/ CalcPriorityOrder
    \/ \E n \in Nodes : Evict(n)

SpecPolicy == InitPolicy /\ [][NextPolicy]_vars

(***************************************************************************)
(* Properties                                                              *)
(***************************************************************************)
\* an add_one_req call has been made and has reached its return statement
Decided == call.op \in {"add_one_req", "add_one_req_done"} /\ call.ret # "pending"

\* an add_one_req call has returned (the finally of _lock_req has run)
Returned == call.op = "add_one_req_done"

PromptLogprobPending(r) == reqs[r].return_logprob /\ reqs[r].logprob_none

Count(q, x) == Cardinality({i \in 1..Len(q) : q[i] = x})

\* C1: every temporary lock taken by match_prefix_lock is released by one
\* dec_lock_ref on the same node before add_one_req returns, on every exit:
\* acquisitions equal releases once a call has returned, a rejected call leaves
\* the lock counts as they were and an admitted call leaves the matched node's
\* count one higher.
C1_TemporaryLockReleased ==
    /\ pc \in {"locked", "exit"} =>
          /\ n_acquire = n_release + 1
          /\ reqs[cur].last_node = call.node
          /\ lock_ref[call.node] >= call.pre_lock[call.node] + 1
    /\ pc \notin {"locked", "exit"} => n_acquire = n_release
    /\ Returned /\ call.ret = "False" => lock_ref = call.pre_lock
    /\ Returned /\ call.ret = "True" =>
          lock_ref[call.node] = call.pre_lock[call.node] + 1

C1_Witness ==
    /\ Returned
    /\ call.ret = "False"
    /\ call.branch = "chunk0"
    /\ call.node # Root
    /\ Len(can_run_list) > 0
    /\ n_release >= 2

\* C2: with eviction running between the cache operations, no locked node
\* leaves the tree, and the last_node of the request being admitted and of
\* every request in can_run_list stays locked and resident.
C2_AdmittedNodesResident ==
    /\ \A n \in Nodes : lock_ref[n] > 0 => n \in resident
    /\ \A i \in 1..Len(can_run_list) :
          /\ lock_ref[reqs[can_run_list[i]].last_node] > 0
          /\ reqs[can_run_list[i]].last_node \in resident
    /\ pc \in {"locked", "exit"} => lock_ref[reqs[cur].last_node] > 0

C2_Witness ==
    /\ pc = "idle"
    /\ resident # Nodes
    /\ \E i \in 1..Len(can_run_list) :
          /\ can_run_list[i] # InflightRid
          /\ reqs[can_run_list[i]].last_node # Root
          /\ lock_ref[reqs[can_run_list[i]].last_node] = 1

\* C3 as stated: a request is never admitted when total_tokens >= the
\* rem_total_tokens the call started with, and an admitted call lowers
\* rem_total_tokens by at most total_tokens.
C3_Original ==
    /\ Decided /\ call.ret = "True" => ~(call.total_tokens >= call.pre_total)
    /\ Returned /\ call.ret = "True" =>
          call.pre_total - rem_total_tokens <= call.total_tokens

\* C3: a request is never admitted when total_tokens >= rem_total_tokens as
\* it stands at the budget check (the value at call time plus the delta of
\* match_prefix_lock), and an admitted call leaves rem_total_tokens not lower
\* than that checked value by more than total_tokens.
C3_AdmissionWithinTotal ==
    /\ Decided /\ call.ret = "True" => call.total_tokens < call.chk_total
    /\ Decided /\ call.ret = "True" =>
          call.chk_total - rem_total_tokens <= call.total_tokens

C3_Witness ==
    /\ Returned
    /\ call.ret = "True"
    /\ call.branch = "nonchunked"
    /\ call.chk_total # call.pre_total
    /\ call.chk_total - rem_total_tokens = call.total_tokens

\* C4 as stated: offered to an admitter with an empty can_run_list, a request
\* is rejected only when total_tokens >= rem_total_tokens.
C4_Original ==
    Decided /\ call.pre_can_run = <<>> /\ call.ret = "False" =>
        call.total_tokens >= call.chk_total

\* C4: offered to an admitter with an empty can_run_list, a request is
\* rejected only when total_tokens >= rem_total_tokens, or when the chunk
\* budget is exactly 0 and the request has no prompt log-probability pending;
\* the input budget alone never rejects it.
C4_FirstRequestAdmitted ==
    Decided /\ call.pre_can_run = <<>> /\ call.ret = "False" =>
        \/ call.total_tokens >= call.chk_total
        \/ /\ call.pre_chunk = Some(0)
           /\ call.input_tokens > 0
           /\ ~PromptLogprobPending(call.rid)

C4_Witness ==
    /\ Decided
    /\ call.pre_can_run = <<>>
    /\ call.ret = "True"
    /\ call.input_tokens > call.pre_input

\* C5: a request admitted as a chunk, by add_one_req or by add_inflight_req,
\* ends with an extend_input_len no greater than rem_chunk_tokens as it was
\* when the call started.
C5_ChunkWithinBudget ==
    \/ (Decided /\ call.branch = "chunked")
    \/ call.op = "add_inflight_req"
    => reqs[call.rid].extend_input_len <= call.pre_chunk[1]

C5_Witness ==
    /\ Decided
    /\ call.branch = "chunked"
    /\ Len(call.pre_can_run) > 0
    /\ call.pre_chunk[1] > 0
    /\ call.input_tokens > call.pre_chunk[1]
    /\ reqs[call.rid].extend_input_len = call.pre_chunk[1]

\* the counters, lists and lock counts are what they were when the call began
StateAsBefore ==
    /\ rem_total_tokens = call.pre_total
    /\ rem_input_tokens = call.pre_input
    /\ rem_chunk_tokens = call.pre_chunk
    /\ can_run_list = call.pre_can_run
    /\ new_inflight_req = call.pre_inflight
    /\ log_hit_tokens = call.pre_hit
    /\ log_input_tokens = call.pre_log_input
    /\ lock_ref = call.pre_lock

\* C6 as stated: with rem_chunk_tokens = 0, add_one_req on any request with
\* extend_input_len > 0 returns False and leaves the state as it was.
C6_Original ==
    Returned /\ call.pre_chunk = Some(0) /\ call.input_tokens > 0 =>
        call.ret = "False" /\ StateAsBefore

\* C6: with rem_chunk_tokens = 0, add_one_req on a request with
\* extend_input_len > 0 and no prompt log-probability pending returns False,
\* and the counters, can_run_list, new_inflight_req, the log counters and all
\* lock counts are the same after the call as before.
C6_ZeroChunkRejects ==
    /\ Returned
    /\ call.pre_chunk = Some(0)
    /\ call.input_tokens > 0
    /\ ~PromptLogprobPending(call.rid)
    => call.ret = "False" /\ StateAsBefore

C6_Witness ==
    /\ Returned
    /\ call.pre_chunk = Some(0)
    /\ call.branch = "chunk0"
    /\ call.chk_total # call.pre_total
    /\ StateAsBefore

\* C7: no_remaining_tokens() is true exactly when rem_total_tokens <= 0, or
\* rem_input_tokens <= 0, or rem_chunk_tokens is configured and <= 0; and the
\* counters start as the constructor's budgets less mixed_with_decode_tokens.
C7_NoRemainingTokens ==
    /\ no_remaining_tokens <=>
          \/ rem_total_tokens <= 0
          \/ rem_input_tokens <= 0
          \/ (rem_chunk_tokens # None /\ rem_chunk_tokens[1] <= 0)
    /\ rem_chunk_tokens = None =>
          (no_remaining_tokens <=> (rem_total_tokens <= 0 \/ rem_input_tokens <= 0))
    /\ pc = "prio" =>
          /\ rem_total_tokens = ctor_args.rem_total_tokens - ctor_args.mixed_with_decode_tokens
          /\ rem_input_tokens = ctor_args.rem_input_tokens - ctor_args.mixed_with_decode_tokens
          /\ IF ctor_args.rem_chunk_tokens = None
             THEN rem_chunk_tokens = None
             ELSE rem_chunk_tokens = Some(ctor_args.rem_chunk_tokens[1]
                                            - ctor_args.mixed_with_decode_tokens)

C7_Witness ==
    /\ rem_chunk_tokens = None
    /\ rem_total_tokens > 0
    /\ rem_input_tokens = 0
    /\ no_remaining_tokens

\* C8: a chunked admission by add_one_req truncates extend_input_len to the
\* chunk budget, debits no generation tokens, leaves rem_chunk_tokens at 0 and
\* never happens when new_inflight_req is already set: at most one request is
\* left partially admitted in a pass.
C8_SingleInflight ==
    Decided /\ call.branch = "chunked" =>
        /\ reqs[call.rid].extend_input_len = call.pre_chunk[1]
        /\ new_inflight_req = call.rid
        /\ call.chk_total - rem_total_tokens = call.pre_chunk[1]
        /\ rem_chunk_tokens = Some(0)
        /\ call.pre_inflight = NoReq

\* C9: add_inflight_req always appends the request; it returns the request
\* exactly when extend_input_len on entry exceeds rem_chunk_tokens, and debits
\* rem_total_tokens by the clipped extend_input_len plus the clipped
\* max_new_tokens when not truncated, plus zero when truncated.
C9_InflightNeverRejected ==
    call.op = "add_inflight_req" =>
        /\ can_run_list = Append(call.pre_can_run, call.rid)
        /\ call.ret = "req" <=> call.entry_extend > call.pre_chunk[1]
        /\ call.ret = "None" <=> ~(call.entry_extend > call.pre_chunk[1])
        /\ reqs[call.rid].extend_input_len = Min(call.entry_extend, call.pre_chunk[1])
        /\ call.pre_total - rem_total_tokens =
              reqs[call.rid].extend_input_len
              + (IF call.ret = "None"
                 THEN Min(reqs[call.rid].max_new_tokens, CLIP_MAX_NEW_TOKENS)
                 ELSE 0)

C9_Witness ==
    /\ call.op = "add_inflight_req"
    /\ call.ret = "req"
    /\ call.pre_input <= 0
    /\ Len(call.pre_can_run) > 0

\* C10: for the policies fcfs, lof and random, calc_priority leaves the same
\* requests in the queue, each as often as before; fcfs keeps the order and
\* lof orders by non-increasing max_new_tokens.
C10_NonPrefixPermutation ==
    call.op = "calc_priority" /\ call.ret = "None" /\ policy \in {"fcfs", "lof", "random"} =>
        /\ Len(waiting_queue) = Len(call.pre_queue)
        /\ \A r \in Rids : Count(waiting_queue, r) = Count(call.pre_queue, r)
        /\ policy = "fcfs" => waiting_queue = call.pre_queue
        /\ policy = "lof" =>
              \A i \in 1..Len(waiting_queue), j \in 1..Len(waiting_queue) :
                  i < j => reqs[waiting_queue[i]].max_new_tokens
                             >= reqs[waiting_queue[j]].max_new_tokens

C10_Witness ==
    /\ call.op = "calc_priority"
    /\ call.ret = "None"
    /\ policy = "lof"
    /\ waiting_queue # call.pre_queue
    /\ \E i \in 1..Len(waiting_queue), j \in 1..Len(waiting_queue) :
          /\ i < j
          /\ reqs[waiting_queue[i]].max_new_tokens = reqs[waiting_queue[j]].max_new_tokens

\* calc_priority has run to its end without raising
Ordered == call.op = "calc_priority" /\ call.ret = "None"

\* position of a request in a queue
Pos(q, r) == CHOOSE i \in 1..Len(q) : q[i] = r

\* the deepest node of a set of resident nodes on the path of a key
Deepest(key_node, res) ==
    LET cand == PathTo(key_node) \cap res
    IN CHOOSE n \in cand : \A m \in cand : PrefixLen(m) <= PrefixLen(n)

\* C11: under lpm, after calc_priority the queue holds the same requests in
\* non-increasing order of len(prefix_indices), the length match_prefix
\* returned, and requests of equal match length keep their input order.
C11_LongestPrefixFirst ==
    Ordered /\ policy = "lpm" =>
        /\ Len(waiting_queue) = Len(call.pre_queue)
        /\ Range(waiting_queue) = Range(call.pre_queue)
        /\ \A r \in Range(waiting_queue) :
              Len(reqs[r].prefix_indices) = PrefixLen(Deepest(reqs[r].key_node, call.pre_resident))
        /\ \A i \in 1..Len(waiting_queue), j \in 1..Len(waiting_queue) :
              i < j =>
                 /\ Len(reqs[waiting_queue[i]].prefix_indices)
                      >= Len(reqs[waiting_queue[j]].prefix_indices)
                 /\ Len(reqs[waiting_queue[i]].prefix_indices)
                      = Len(reqs[waiting_queue[j]].prefix_indices)
                    => Pos(call.pre_queue, waiting_queue[i]) < Pos(call.pre_queue, waiting_queue[j])

C11_Witness ==
    /\ Ordered
    /\ policy = "lpm"
    /\ waiting_queue # call.pre_queue
    /\ call.pre_resident # Nodes
    /\ \E i \in 1..Len(waiting_queue), j \in 1..Len(waiting_queue) :
          /\ i < j
          /\ Len(reqs[waiting_queue[i]].prefix_indices) > 0
          /\ Len(reqs[waiting_queue[i]].prefix_indices)
               = Len(reqs[waiting_queue[j]].prefix_indices)

\* the nodes of the subtree rooted at a
Subtree(a) == {n \in Nodes : a \in PathTo(n)}

\* the requests matched inside the subtree of a, as the tree stood when
\* calc_priority ordered the queue
MatchedInside(a) ==
    {r \in Range(call.pre_queue) : reqs[r].last_node \in Subtree(a) \cap call.ord_resident}

\* the aggregate weight of a: requests matched at a or at a descendant of a
Weight(a) == Cardinality(MatchedInside(a))

\* C12: under dfs-weight, of two sibling subtrees the one of strictly greater
\* aggregate weight has all its requests before all requests of the other,
\* and within a subtree the requests matched at descendants come before the
\* requests matched at the root of the subtree.
C12_HeavierSubtreeFirst ==
    Ordered /\ policy = "dfs-weight" =>
        /\ \A a \in call.ord_resident \ {Root}, b \in call.ord_resident \ {Root} :
              a # b /\ Parent(a) = Parent(b) /\ Weight(a) > Weight(b) =>
                 \A r \in MatchedInside(a), t \in MatchedInside(b) :
                    /\ r \in Range(waiting_queue)
                    /\ t \in Range(waiting_queue)
                    /\ Pos(waiting_queue, r) < Pos(waiting_queue, t)
        /\ \A a \in call.ord_resident :
              \A r \in MatchedInside(a), t \in MatchedInside(a) :
                 reqs[r].last_node # a /\ reqs[t].last_node = a =>
                    /\ r \in Range(waiting_queue)
                    /\ t \in Range(waiting_queue)
                    /\ Pos(waiting_queue, r) < Pos(waiting_queue, t)

C12_Witness ==
    /\ Ordered
    /\ policy = "dfs-weight"
    /\ waiting_queue # call.pre_queue
    /\ \E a \in call.ord_resident \ {Root}, b \in call.ord_resident \ {Root} :
          /\ a < b
          /\ Parent(a) = Parent(b)
          /\ Weight(b) > Weight(a)
          /\ \E r \in MatchedInside(a) : reqs[r].last_node # a

\* C13: with the cache disabled, lpm and dfs-weight become fcfs at
\* construction, calc_priority then makes no match_prefix call and leaves the
\* queue and the requests as they were; otherwise the constructor keeps the
\* policy it was given.
C13_DisabledCacheDegrades ==
    /\ tree_disable /\ policy_arg \in {"lpm", "dfs-weight"} =>
          /\ policy = "fcfs"
          /\ n_match = 0
          /\ call.op = "calc_priority" =>
                /\ call.ret # "ValueError"
                /\ waiting_queue = call.pre_queue
                /\ reqs = call.pre_reqs
    /\ ~(tree_disable /\ policy_arg \in {"lpm", "dfs-weight"}) => policy = policy_arg

C13_Witness ==
    /\ tree_disable
    /\ policy_arg = "lpm"
    /\ Ordered
    /\ waiting_queue # [i \in 1..NumReqs |-> i]

\* C14: a policy name outside lpm, fcfs, lof, random, dfs-weight is kept by
\* the constructor, and calc_priority raises ValueError without a
\* match_prefix call, leaving the queue, the requests and the lock counts as
\* they were.
C14_UnknownPolicyRaises ==
    policy_arg \notin {"lpm", "fcfs", "lof", "random", "dfs-weight"} =>
        /\ policy = policy_arg
        /\ n_match = 0
        /\ pc # "idle"
        /\ call.op = "calc_priority" =>
              /\ waiting_queue = call.pre_queue
              /\ reqs = call.pre_reqs
              /\ lock_ref = call.pre_lock
              /\ call.ret # "None"
              /\ call.ret = "ValueError" <=> pc = "error"

C14_Witness ==
    /\ policy_arg = "bogus"
    /\ ~tree_disable
    /\ call.op = "calc_priority"
    /\ call.ret = "ValueError"
    /\ pc = "error"
    /\ resident # Nodes

\* the untruncated input of a request: origin_input_ids + output_ids
FullFill(req) == req.origin_input_ids \o req.output_ids

\* C15: a request admitted through the non-chunked branch (chunk budget
\* unset, or input_tokens <= rem_chunk_tokens, or prompt log-probability
\* pending) is appended to can_run_list with extend_input_len and fill_ids
\* untruncated, new_inflight_req is left as it was, rem_total_tokens is debited
\* by extend_input_len + min(max_new_tokens, CLIP_MAX_NEW_TOKENS) from the
\* value the branch found, rem_input_tokens and the configured
\* rem_chunk_tokens by extend_input_len, log_hit_tokens grows by the prefix
\* length and log_input_tokens by extend_input_len.
C15_NonChunkedAdmission ==
    Decided =>
        LET r == call.rid
            req == reqs[r]
            cond == \/ call.pre_chunk = None
                    \/ call.input_tokens <= call.pre_chunk[1]
                    \/ PromptLogprobPending(r)
        IN /\ call.ret = "True" => (cond <=> call.branch = "nonchunked")
           /\ call.branch = "nonchunked" =>
                 /\ call.ret = "True"
                 /\ can_run_list = Append(call.pre_can_run, r)
                 /\ req.fill_ids = FullFill(req)
                 /\ req.extend_input_len = Len(FullFill(req)) - Len(req.prefix_indices)
                 /\ new_inflight_req = call.pre_inflight
                 /\ call.chk_total - rem_total_tokens
                      = req.extend_input_len + Min(req.max_new_tokens, CLIP_MAX_NEW_TOKENS)
                 /\ call.pre_input - rem_input_tokens = req.extend_input_len
                 /\ call.pre_chunk = None => rem_chunk_tokens = None
                 /\ call.pre_chunk # None =>
                       /\ rem_chunk_tokens # None
                       /\ call.pre_chunk[1] - rem_chunk_tokens[1] = req.extend_input_len
                 /\ log_hit_tokens - call.pre_hit = Len(req.prefix_indices)
                 /\ log_input_tokens - call.pre_log_input = req.extend_input_len

C15_Witness ==
    /\ Returned
    /\ call.branch = "nonchunked"
    /\ call.pre_chunk # None
    /\ call.pre_can_run # <<>>
    /\ reqs[call.rid].max_new_tokens > CLIP_MAX_NEW_TOKENS
    /\ call.input_tokens > 0

\* C16: a request with return_logprob set and normalized_prompt_logprob None
\* is never truncated by add_one_req: once past the total and input checks it
\* is admitted non-chunked with its full extend_input_len, whatever the chunk
\* budget (smaller than its input, zero or negative) and whether or not
\* another request was chunked before it, and it never becomes
\* new_inflight_req.
C16_LogprobNeverTruncated ==
    /\ new_inflight_req # NoReq => ~PromptLogprobPending(new_inflight_req)
    /\ Decided /\ PromptLogprobPending(call.rid) =>
          /\ call.branch \in {"total", "input", "nonchunked"}
          /\ call.branch = "total" => call.total_tokens >= call.chk_total
          /\ call.branch = "input" =>
                call.input_tokens > call.pre_input /\ call.pre_can_run # <<>>
          /\ call.branch = "nonchunked" =>
                /\ reqs[call.rid].fill_ids = FullFill(reqs[call.rid])
                /\ reqs[call.rid].extend_input_len
                     = Len(FullFill(reqs[call.rid])) - Len(reqs[call.rid].prefix_indices)
                /\ new_inflight_req = call.pre_inflight

C16_Witness ==
    /\ Returned
    /\ PromptLogprobPending(call.rid)
    /\ call.ret = "True"
    /\ call.pre_chunk # None
    /\ call.pre_chunk[1] <= 0
    /\ call.input_tokens > 0
    /\ call.pre_inflight # NoReq
    /\ call.pre_inflight # call.rid

\* the branch add_one_req takes, from the admitter state and the cache state
\* at the call and the request's own tokens and sampling parameters
ExpectedBranch(node, extend, max_new, pending) ==
    LET chk == call.pre_total + IncDelta(node, call.pre_lock)
    IN IF extend + max_new >= chk THEN "total"
       ELSE IF extend > call.pre_input /\ call.pre_can_run # <<>> THEN "input"
       ELSE IF call.pre_chunk = None \/ extend <= call.pre_chunk[1] \/ pending THEN "nonchunked"
       ELSE IF call.pre_chunk[1] = 0 THEN "chunk0"
       ELSE "chunked"

\* C17: the result of add_one_req is a function of the admitter state, the
\* cache state, origin_input_ids, output_ids and the sampling parameters: the
\* locked node is the deepest resident node on the request's path when the
\* call starts, the outcome, the counters and the request's fill_ids,
\* prefix_indices, last_node and extend_input_len follow from it, whatever
\* prefix_indices, last_node, fill_ids and extend_input_len the request
\* carried into the call; prefix_indices and last_node are of the same match.
C17_AdvisoryValuesIgnored ==
    call.op \in {"add_one_req", "add_one_req_done"} =>
        LET r == call.rid
            req == reqs[r]
            node == Deepest(req.key_node, call.pre_resident)
            full == Len(req.origin_input_ids) + Len(req.output_ids)
            extend == full - PrefixLen(node)
            max_new == Min(req.max_new_tokens, CLIP_MAX_NEW_TOKENS)
            branch == ExpectedBranch(node, extend, max_new, req.return_logprob /\ req.logprob_none)
            chk == call.pre_total + IncDelta(node, call.pre_lock)
            used == IF branch = "nonchunked" THEN extend
                    ELSE IF branch = "chunked" THEN call.pre_chunk[1] ELSE 0
            debit == IF branch = "nonchunked" THEN extend + max_new ELSE used
        IN /\ call.node = node
           /\ req.last_node = node
           /\ req.prefix_indices = Indices(PrefixLen(node))
           /\ Len(req.prefix_indices) = PrefixLen(req.last_node)
           /\ Decided =>
                 /\ call.branch = branch
                 /\ call.ret = "True" <=> branch \in {"nonchunked", "chunked"}
                 /\ req.extend_input_len = (IF branch = "chunked" THEN used ELSE extend)
                 /\ req.fill_ids = PySlice(FullFill(req),
                                           Len(req.prefix_indices) + req.extend_input_len)
                 /\ rem_input_tokens = call.pre_input - used
                 /\ rem_chunk_tokens = (IF call.pre_chunk = None THEN None
                                        ELSE Some(call.pre_chunk[1] - used))
                 /\ pc = "exit" => rem_total_tokens = chk - debit
                 /\ lock_ref[node] = call.pre_lock[node]
                                       + (IF pc = "exit" THEN 1 ELSE 0)
                                       + (IF call.ret = "True" THEN 1 ELSE 0)

C17_Witness ==
    /\ Returned
    /\ call.ret = "True"
    /\ call.pre_reqs[call.rid].last_node # NoNode
    /\ call.pre_reqs[call.rid].last_node # call.node
    /\ call.pre_reqs[call.rid].prefix_indices # reqs[call.rid].prefix_indices

\* the requests of the input queue whose last_node is reachable from the root
\* when the queue is ordered
Reachable == {r \in Range(call.pre_queue) : reqs[r].last_node \in call.ord_resident}

\* C18: under dfs-weight the output holds exactly the requests whose
\* last_node is reachable from the root, each once: a permutation of the
\* input when all are reachable, and then the weight computed for the root is
\* the length of the queue; requests matched at the same node are contiguous
\* and in input order; a request whose last_node is not reachable is dropped.
C18_DfsWeightPermutation ==
    Ordered /\ policy = "dfs-weight" =>
        /\ Range(waiting_queue) = Reachable
        /\ Len(waiting_queue) = Cardinality(Reachable)
        /\ Reachable = Range(call.pre_queue) =>
              /\ Len(waiting_queue) = Len(call.pre_queue)
              /\ calc_weight(Root, call.pre_queue, reqs, call.ord_resident) = Len(call.pre_queue)
        /\ \A i \in 1..Len(waiting_queue), j \in 1..Len(waiting_queue) :
              i < j /\ reqs[waiting_queue[i]].last_node = reqs[waiting_queue[j]].last_node =>
                 /\ Pos(call.pre_queue, waiting_queue[i]) < Pos(call.pre_queue, waiting_queue[j])
                 /\ \A k \in i..j :
                       reqs[waiting_queue[k]].last_node = reqs[waiting_queue[i]].last_node

C18_Witness ==
    /\ Ordered
    /\ policy = "dfs-weight"
    /\ Reachable = Range(call.pre_queue)
    /\ waiting_queue # call.pre_queue
    /\ \E i \in 1..Len(call.pre_queue), j \in 1..Len(call.pre_queue) :
          /\ i + 1 < j
          /\ reqs[call.pre_queue[i]].last_node = reqs[call.pre_queue[j]].last_node
          /\ reqs[call.pre_queue[i]].last_node # Root

\* a request matched at a node that left the tree before the ordering
C18_Dropped ==
    /\ Ordered
    /\ policy = "dfs-weight"
    /\ Reachable # Range(call.pre_queue)
    /\ Len(waiting_queue) < Len(call.pre_queue)

RECURSIVE SumExtend(_)
SumExtend(q) == IF q = <<>> THEN 0 ELSE reqs[Head(q)].extend_input_len + SumExtend(Tail(q))

\* C19: after any sequence of add_one_req and add_inflight_req calls, for
\* every constructor argument, every request of can_run_list has
\* extend_input_len >= 0 and len(fill_ids) = len(prefix_indices) +
\* extend_input_len, log_input_tokens is the sum of extend_input_len over
\* can_run_list, and rem_input_tokens + log_input_tokens is the initial input
\* budget minus mixed_with_decode_tokens.
C19_AdmittedLengths ==
    pc = "idle" =>
        /\ \A i \in 1..Len(can_run_list) :
              LET req == reqs[can_run_list[i]]
              IN /\ req.extend_input_len >= 0
                 /\ Len(req.fill_ids) = Len(req.prefix_indices) + req.extend_input_len
        /\ log_input_tokens = SumExtend(can_run_list)
        /\ rem_input_tokens + log_input_tokens
             = ctor_args.rem_input_tokens - ctor_args.mixed_with_decode_tokens

\* the parts of C19 taken one by one
C19_ExtendNonNegative ==
    pc = "idle" => \A i \in 1..Len(can_run_list) : reqs[can_run_list[i]].extend_input_len >= 0

C19_FillLength ==
    pc = "idle" =>
        \A i \in 1..Len(can_run_list) :
           Len(reqs[can_run_list[i]].fill_ids)
             = Len(reqs[can_run_list[i]].prefix_indices) + reqs[can_run_list[i]].extend_input_len

C19_InputAccounting ==
    pc = "idle" =>
        /\ log_input_tokens = SumExtend(can_run_list)
        /\ rem_input_tokens + log_input_tokens
             = ctor_args.rem_input_tokens - ctor_args.mixed_with_decode_tokens

\* C20: the permanent inc_lock_ref of add_one_req is applied to a node whose
\* count is already >= 1, so the delta it returns and add_one_req discards is
\* 0; a rejected call leaves rem_total_tokens at its value before the call;
\* after a call that returns True rem_total_tokens is > 0.
C20_NoLeakedDelta ==
    /\ Decided /\ call.ret = "True" =>
          /\ call.perm_delta = 0
          /\ call.pre_lock[call.node] + 1 >= 1
          /\ lock_ref[call.node] >= (IF pc = "exit" THEN 2 ELSE 1)
          /\ rem_total_tokens > 0
    /\ Returned /\ call.ret = "False" => rem_total_tokens = call.pre_total

C20_Witness ==
    /\ Returned
    /\ call.ret = "False"
    /\ call.chk_total # call.pre_total
    /\ call.node # Root

====
